---- MODULE Spec2Model ----
(***************************************************************************)
(* Model of new_alarm_cond.c: the alarm list guarded by alarm_mutex and    *)
(* alarm_cond, the alarm thread (Scheduler), the command loop of main, the *)
(* readers/writers gate (mutex, rw_mutex, reader_count), the display       *)
(* creation thread (Discovery), the display alarm threads (one per group)  *)
(* and the display removal thread (Reaper).                                *)
(*                                                                         *)
(* A critical section that runs under alarm_mutex without blocking is one  *)
(* action, its lock and unlock included (a thread at "lock" is waiting for *)
(* alarm_mutex); between two waits the alarm thread keeps alarm_mutex      *)
(* locked. The semaphore operations of the gate are separate actions.      *)
(* Alarm ids are handed out fresh (1, 2, ...): the data model requires an  *)
(* alarm id to be unique while the alarm is active. Every alarm starts     *)
(* with message 1 and gets another one by Change_Alarm: the program        *)
(* compares a message only with the message of the same alarm's snapshot   *)
(* entry, never with another alarm's.                                      *)
(***************************************************************************)
EXTENDS Integers, Sequences, FiniteSets, TLC

\* ---- bounds of the model ------------------------------------------------
MaxAlarms == 2
MaxTime == 2
MaxSecs == 2
NumGroups == 2
NumMsgs == 2
MaxCmds == 3

AlarmIds == 1..MaxAlarms
Groups == 1..NumGroups
Secs == 1..MaxSecs
Msgs == 1..NumMsgs

VARIABLES
    now,            \* time(NULL), saturating at MaxTime
    alarm_list,     \* the alarm list, head first
    current_alarm,  \* expiry the alarm thread waits for, 0 = not busy
    alarm_mutex,    \* TRUE while alarm_mutex is locked
    sched_pc,       \* position of alarm_thread
    sched_alarm,    \* alarm_thread's local `alarm` (<<>> when none)
    fired,          \* alarms printed and freed by alarm_thread, in order
    group_threads,  \* the group list, head first
    mutex,          \* value of semaphore mutex
    rw_mutex,       \* value of semaphore rw_mutex
    reader_count,
    disc_pc,        \* position of alarm_group_display_creation_thread
    disp_pc,        \* position of display_alarm_thread, per group
    reaper_pc,      \* position of alarm_group_display_removal
    next_id,        \* next fresh alarm id = 1 + number of Start_Alarm requests
    ncmds,          \* number of command lines read by main
    mutated,        \* a Change/Cancel/Suspend/Reactivate request was read
    crashed,        \* the process has faulted
    out             \* the lines printed by the last step

vars == <<now, alarm_list, current_alarm, alarm_mutex, sched_pc, sched_alarm,
          fired, group_threads, mutex, rw_mutex, reader_count, disc_pc,
          disp_pc, reaper_pc, next_id, ncmds, mutated, crashed, out>>

\* ---- helpers --------------------------------------------------------------
Min(a, b) == IF a < b THEN a ELSE b

Line(type, id, group, seconds, message) ==
    [type |-> type, id |-> id, group |-> group, seconds |-> seconds,
     message |-> message]

\* struct alarm_tag
alarm_t(id, group, seconds, time, message, active) ==
    [alarm_id |-> id, group_id |-> group, seconds |-> seconds, time |-> time,
     message |-> message, active |-> active]

\* find_alarm: index of the first alarm with the id, 0 for NULL
RECURSIVE find_from(_, _, _)
find_from(list, alarm_id, i) ==
    IF i > Len(list) THEN 0
    ELSE IF list[i].alarm_id = alarm_id THEN i
    ELSE find_from(list, alarm_id, i + 1)

find_alarm(list, alarm_id) == find_from(list, alarm_id, 1)

\* the walk of alarm_insert and of the Start_Alarm branch: index of the first
\* entry whose time is not less than the new alarm's
RECURSIVE insert_point(_, _, _)
insert_point(list, time, i) ==
    IF i <= Len(list) /\ list[i].time < time
    THEN insert_point(list, time, i + 1)
    ELSE i

splice(list, alarm) ==
    LET i == insert_point(list, alarm.time, 1)
    IN  SubSeq(list, 1, i - 1) \o <<alarm>> \o SubSeq(list, i, Len(list))

\* alarm_insert: splice, then update current_alarm (the signal has no waiter:
\* the only caller is the alarm thread itself)
alarm_insert_signals(cur, alarm) == cur = 0 \/ alarm.time < cur

alarm_insert_current(cur, alarm) ==
    IF alarm_insert_signals(cur, alarm) THEN alarm.time ELSE cur

\* a remove_alarm that unlinks the last alarm when the id is not found
remove_alarm_last(list, alarm_id) ==
    LET i == find_alarm(list, alarm_id)
    IN  IF i = 0 THEN SubSeq(list, 1, Len(list) - 1)
        ELSE SubSeq(list, 1, i - 1) \o SubSeq(list, i + 1, Len(list))

\* remove_alarm: the list without the first alarm with the id
remove_alarm(list, alarm_id) ==
    LET i == find_alarm(list, alarm_id)
    IN  IF i = 0 THEN list
        ELSE SubSeq(list, 1, i - 1) \o SubSeq(list, i + 1, Len(list))

\* duplicate_alarm: the copy kept in a display_list (time is not copied)
duplicate_alarm(alarm) ==
    [alarm_id |-> alarm.alarm_id, group_id |-> alarm.group_id,
     seconds |-> alarm.seconds, message |-> alarm.message,
     active |-> alarm.active]

group_t(group_id, display_list) ==
    [group_id |-> group_id, display_list |-> display_list]

RECURSIVE group_from(_, _, _)
group_from(groups, group_id, i) ==
    IF i > Len(groups) THEN 0
    ELSE IF groups[i].group_id = group_id THEN i
    ELSE group_from(groups, group_id, i + 1)

\* a lookup that looks at the first group record only
find_group_head(groups, group_id) ==
    IF groups # <<>> /\ groups[1].group_id = group_id THEN 1 ELSE 0

\* the walk over group_threads looking for a group id, 0 for NULL
find_group(groups, group_id) == group_from(groups, group_id, 1)

Init ==
    /\ now = 0
    /\ alarm_list = <<>>
    /\ current_alarm = 0
    /\ alarm_mutex = FALSE
    /\ sched_pc = "start"
    /\ sched_alarm = <<>>
    /\ fired = <<>>
    /\ group_threads = <<>>
    /\ mutex = 1
    /\ rw_mutex = 1
    /\ reader_count = 0
    /\ disc_pc = "start_read"
    /\ disp_pc = [g \in Groups |-> "none"]
    /\ reaper_pc = "start_write"
    /\ next_id = 1
    /\ ncmds = 0
    /\ mutated = FALSE
    /\ crashed = FALSE
    /\ out = <<>>

\* ---- the clock --------------------------------------------------------------
Tick ==
    /\ crashed = FALSE
    /\ now < MaxTime
    /\ now' = now + 1
    /\ out' = <<>>
    /\ UNCHANGED <<alarm_list, current_alarm, alarm_mutex, sched_pc,
                   sched_alarm, fired, group_threads, mutex, rw_mutex,
                   reader_count, disc_pc, disp_pc, reaper_pc, next_id, ncmds,
                   mutated, crashed>>

\* ---- alarm_thread (the Scheduler) -------------------------------------------
main_vars == <<next_id, ncmds, mutated>>
gate_vars == <<mutex, rw_mutex, reader_count>>
display_vars == <<group_threads, disc_pc, disp_pc, reaper_pc>>

\* line 176: the detached alarm must still be waited for
in_future(alarm, t) == alarm.time > t

\* a timed wait that gives up one second before the deadline
timed_out_early(alarm, t) == t + 1 >= alarm.time

\* line 182: pthread_cond_timedwait with absolute deadline alarm.time returns
\* ETIMEDOUT once the clock has reached the deadline
timed_out(alarm, t) == t >= alarm.time

fire_record(alarm) == [alarm_id |-> alarm.alarm_id, time |-> alarm.time]

\* lines 202-205: print the alarm and free it
sched_fire(alarm) ==
    /\ fired' = Append(fired, fire_record(alarm))
    /\ out' = <<Line("fired", alarm.alarm_id, alarm.group_id, alarm.seconds,
                     alarm.message)>>
    /\ sched_alarm' = <<>>
    /\ sched_pc' = "top"
    /\ alarm_mutex' = TRUE

\* a detach that takes the first alarm without unlinking it from the list
sched_detach_linked(cur) ==
    LET alarm == Head(alarm_list)
    IN  /\ alarm_list' = alarm_list
        /\ IF in_future(alarm, now)
           THEN /\ current_alarm' = alarm.time
                /\ sched_alarm' = <<alarm>>
                /\ sched_pc' = "timedwait"
                /\ alarm_mutex' = FALSE
                /\ out' = <<>>
                /\ UNCHANGED fired
           ELSE /\ current_alarm' = cur
                /\ sched_fire(alarm)

\* lines 169-205 up to the next wait, alarm_mutex held, cur = current_alarm
sched_detach(cur) ==
    LET alarm == Head(alarm_list)
    IN  /\ alarm_list' = Tail(alarm_list)
        /\ IF in_future(alarm, now)
           THEN /\ current_alarm' = alarm.time
                /\ sched_alarm' = <<alarm>>
                /\ sched_pc' = "timedwait"
                /\ alarm_mutex' = FALSE
                /\ out' = <<>>
                /\ UNCHANGED fired
           ELSE /\ current_alarm' = cur
                /\ sched_fire(alarm)

\* line 148: the first lock of alarm_mutex
alarm_thread_lock ==
    /\ crashed = FALSE
    /\ sched_pc = "start"
    /\ alarm_mutex = FALSE
    /\ alarm_mutex' = TRUE
    /\ sched_pc' = "top"
    /\ out' = <<>>
    /\ UNCHANGED <<now, alarm_list, current_alarm, sched_alarm, fired,
                   crashed>>
    /\ UNCHANGED <<main_vars, gate_vars, display_vars>>

\* lines 160-205: one iteration of the loop from its top, alarm_mutex held
alarm_thread_top ==
    /\ crashed = FALSE
    /\ sched_pc = "top"
    /\ IF alarm_list = <<>>
       THEN /\ current_alarm' = 0
            /\ sched_pc' = "wait_empty"
            /\ alarm_mutex' = FALSE
            /\ out' = <<>>
            /\ UNCHANGED <<alarm_list, sched_alarm, fired>>
       ELSE sched_detach(0)
    /\ UNCHANGED <<now, crashed>>
    /\ UNCHANGED <<main_vars, gate_vars, display_vars>>

\* lines 161-166: pthread_cond_wait returns (nothing in the program signals
\* alarm_cond while the thread waits, so only a spurious wakeup returns it) and
\* the list is not empty; a return with the list empty waits again
alarm_thread_wake_empty ==
    /\ crashed = FALSE
    /\ sched_pc = "wait_empty"
    /\ alarm_mutex = FALSE
    /\ alarm_list # <<>>
    /\ sched_detach(current_alarm)
    /\ UNCHANGED <<now, crashed>>
    /\ UNCHANGED <<main_vars, gate_vars, display_vars>>

\* lines 181-205: pthread_cond_timedwait returns with alarm_mutex locked
alarm_thread_timedwait ==
    /\ crashed = FALSE
    /\ sched_pc = "timedwait"
    /\ alarm_mutex = FALSE
    /\ LET alarm == sched_alarm[1]
       IN  IF timed_out(alarm, now)
           THEN /\ sched_fire(alarm)
                /\ UNCHANGED <<alarm_list, current_alarm>>
           ELSE /\ current_alarm # alarm.time
                /\ alarm_list' = splice(alarm_list, alarm)
                /\ current_alarm' = alarm_insert_current(current_alarm, alarm)
                /\ sched_alarm' = <<>>
                /\ sched_pc' = "top"
                /\ alarm_mutex' = TRUE
                /\ out' = <<>>
                /\ UNCHANGED fired
    /\ UNCHANGED <<now, crashed>>
    /\ UNCHANGED <<main_vars, gate_vars, display_vars>>

\* ---- main: the command loop -------------------------------------------------
sched_vars == <<current_alarm, sched_pc, sched_alarm, fired>>

\* lines 459-492: Start_Alarm; the alarm is spliced in by the inline walk,
\* which neither touches current_alarm nor signals alarm_cond
Start_Alarm(group_id, seconds, message) ==
    /\ crashed = FALSE
    /\ ncmds < MaxCmds
    /\ next_id <= MaxAlarms
    /\ now + seconds <= MaxTime
    /\ alarm_mutex = FALSE
    /\ LET alarm == alarm_t(next_id, group_id, seconds, now + seconds,
                            message, 1)
       IN  /\ alarm_list' = splice(alarm_list, alarm)
           /\ out' = <<Line("inserted", next_id, group_id, seconds, message)>>
    /\ next_id' = next_id + 1
    /\ ncmds' = ncmds + 1
    /\ UNCHANGED <<now, alarm_mutex, mutated, crashed>>
    /\ UNCHANGED <<sched_vars, gate_vars, display_vars>>

\* lines 500-513: the alarm with the id is rewritten where it stands
change_alarm(list, alarm_id, group_id, seconds, message, t) ==
    LET i == find_alarm(list, alarm_id)
    IN  IF i = 0 THEN list
        ELSE [list EXCEPT ![i] = alarm_t(alarm_id, group_id, seconds,
                                         t + seconds, message, list[i].active)]

\* lines 494-521: Change_Alarm
Change_Alarm(alarm_id, group_id, seconds, message) ==
    /\ crashed = FALSE
    /\ ncmds < MaxCmds
    /\ now + seconds <= MaxTime
    /\ alarm_mutex = FALSE
    /\ alarm_list' = change_alarm(alarm_list, alarm_id, group_id, seconds,
                                  message, now)
    /\ out' = IF find_alarm(alarm_list, alarm_id) # 0
              THEN <<Line("changed", alarm_id, group_id, seconds, message)>>
              ELSE <<Line("change: not found", alarm_id, 0, 0, 0)>>
    /\ ncmds' = ncmds + 1
    /\ mutated' = TRUE
    /\ UNCHANGED <<now, alarm_mutex, next_id, crashed>>
    /\ UNCHANGED <<sched_vars, gate_vars, display_vars>>

\* lines 579-584, under the lock of lines 522-533: cancel_alarm. After
\* remove_alarm has freed the alarm, find_alarm looks the id up again and the
\* result is dereferenced; with NULL the behaviour is undefined: the process
\* faults, or the read goes through and some line is printed
Cancel_Alarm(alarm_id) ==
    /\ crashed = FALSE
    /\ ncmds < MaxCmds
    /\ alarm_mutex = FALSE
    /\ alarm_list' = remove_alarm(alarm_list, alarm_id)
    /\ IF find_alarm(alarm_list, alarm_id) # 0
       THEN LET i == find_alarm(alarm_list', alarm_id)
            IN  IF i # 0
                THEN /\ out' = <<Line("canceled", alarm_list'[i].alarm_id, 0,
                                      alarm_list'[i].seconds,
                                      alarm_list'[i].message)>>
                     /\ UNCHANGED crashed
                ELSE \E fault \in BOOLEAN :
                        /\ crashed' = fault
                        /\ out' = IF fault THEN <<>>
                                  ELSE <<Line("canceled", 0, 0, 0, 0)>>
       ELSE /\ out' = <<Line("cancel: not found", alarm_id, 0, 0, 0)>>
            /\ UNCHANGED crashed
    /\ ncmds' = ncmds + 1
    /\ mutated' = TRUE
    /\ UNCHANGED <<now, alarm_mutex, next_id>>
    /\ UNCHANGED <<sched_vars, gate_vars, display_vars>>

\* a suspend_alarm that flips the flag instead of clearing it
suspend_alarm_toggle(list, alarm_id) ==
    LET node == find_alarm(list, alarm_id)
    IN  IF node # 0
        THEN [list EXCEPT ![node].active = 1 - list[node].active]
        ELSE list

\* lines 587-595: suspend_alarm
suspend_alarm(list, alarm_id) ==
    LET node == find_alarm(list, alarm_id)
    IN  IF node # 0 /\ list[node].active = 1
        THEN [list EXCEPT ![node].active = 0]
        ELSE list

\* lines 598-606: reactivate_alarm
reactivate_alarm(list, alarm_id) ==
    LET node == find_alarm(list, alarm_id)
    IN  IF node # 0 /\ list[node].active = 0
        THEN [list EXCEPT ![node].active = 1]
        ELSE list

\* lines 534-545: Suspend_Alarm
Suspend_Alarm(alarm_id) ==
    /\ crashed = FALSE
    /\ ncmds < MaxCmds
    /\ alarm_mutex = FALSE
    /\ alarm_list' = suspend_alarm(alarm_list, alarm_id)
    /\ LET node == find_alarm(alarm_list, alarm_id)
       IN  out' = IF node # 0 /\ alarm_list[node].active = 1
                  THEN <<Line("suspended", alarm_id, 0,
                              alarm_list[node].seconds,
                              alarm_list[node].message)>>
                  ELSE <<Line("not found or already suspended", alarm_id,
                              0, 0, 0)>>
    /\ ncmds' = ncmds + 1
    /\ mutated' = TRUE
    /\ UNCHANGED <<now, alarm_mutex, next_id, crashed>>
    /\ UNCHANGED <<sched_vars, gate_vars, display_vars>>

\* lines 546-557: Reactivate_Alarm
Reactivate_Alarm(alarm_id) ==
    /\ crashed = FALSE
    /\ ncmds < MaxCmds
    /\ alarm_mutex = FALSE
    /\ alarm_list' = reactivate_alarm(alarm_list, alarm_id)
    /\ LET node == find_alarm(alarm_list, alarm_id)
       IN  out' = IF node # 0 /\ alarm_list[node].active = 0
                  THEN <<Line("reactivated", alarm_id, 0,
                              alarm_list[node].seconds,
                              alarm_list[node].message)>>
                  ELSE <<Line("not found or already active", alarm_id,
                              0, 0, 0)>>
    /\ ncmds' = ncmds + 1
    /\ mutated' = TRUE
    /\ UNCHANGED <<now, alarm_mutex, next_id, crashed>>
    /\ UNCHANGED <<sched_vars, gate_vars, display_vars>>

\* lines 609-616: view_alarms prints one line per alarm of the list, in order
view_alarms(list) ==
    [i \in 1..Len(list) |->
        Line("view", list[i].alarm_id, list[i].group_id, list[i].seconds,
             list[i].message)]

\* lines 558-569: View_Alarms
View_Alarms ==
    /\ crashed = FALSE
    /\ ncmds < MaxCmds
    /\ alarm_mutex = FALSE
    /\ out' = view_alarms(alarm_list)
    /\ ncmds' = ncmds + 1
    /\ UNCHANGED <<now, alarm_list, alarm_mutex, next_id, mutated, crashed>>
    /\ UNCHANGED <<sched_vars, gate_vars, display_vars>>

\* lines 570-572: a line that matches no command
Invalid_Request ==
    /\ crashed = FALSE
    /\ ncmds < MaxCmds
    /\ out' = <<Line("invalid request", 0, 0, 0, 0)>>
    /\ ncmds' = ncmds + 1
    /\ UNCHANGED <<now, alarm_list, alarm_mutex, next_id, mutated, crashed>>
    /\ UNCHANGED <<sched_vars, gate_vars, display_vars>>

\* ---- the readers/writers gate -----------------------------------------------
\* lines 65-68: sem_wait(&mutex); reader_count++
start_read_enter ==
    /\ mutex > 0
    /\ mutex' = mutex - 1
    /\ reader_count' = reader_count + 1
    /\ UNCHANGED rw_mutex

\* lines 69-71: the first reader waits for rw_mutex, still holding mutex
start_read_first ==
    /\ rw_mutex > 0
    /\ rw_mutex' = rw_mutex - 1
    /\ UNCHANGED <<mutex, reader_count>>

\* a stop_read in which the last reader does not post rw_mutex
stop_read_keep ==
    /\ reader_count' = reader_count - 1
    /\ rw_mutex' = rw_mutex
    /\ mutex' = mutex + 1

\* lines 74-80: stop_read; mutex, taken in start_read, is posted only here
stop_read ==
    /\ reader_count' = reader_count - 1
    /\ rw_mutex' = IF reader_count - 1 = 0 THEN rw_mutex + 1 ELSE rw_mutex
    /\ mutex' = mutex + 1

\* a start_write that does not wait for the readers to leave
start_write_nowait ==
    /\ rw_mutex' = rw_mutex - 1
    /\ UNCHANGED <<mutex, reader_count>>

\* lines 82-84
start_write ==
    /\ rw_mutex > 0
    /\ rw_mutex' = rw_mutex - 1
    /\ UNCHANGED <<mutex, reader_count>>

\* lines 86-88
stop_write ==
    /\ rw_mutex' = rw_mutex + 1
    /\ UNCHANGED <<mutex, reader_count>>

\* where a reader goes after sem_wait(&mutex) and reader_count++
after_enter(count) == IF count = 1 THEN "wait_rw" ELSE "lock"

\* ---- alarm_group_display_creation_thread (Discovery) ------------------------
\* lines 326-329: the walk over a display_list looking for an alarm id
find_entry(display_list, alarm_id) == find_from(display_list, alarm_id, 1)

\* lines 315-368: the walk over the alarm list; ev collects the printed lines
RECURSIVE creation_scan(_, _, _, _)
creation_scan(list, i, groups, ev) ==
    IF i > Len(list) THEN [groups |-> groups, out |-> ev]
    ELSE
      LET current == list[i]
          gi == find_group(groups, current.group_id)
          copy == duplicate_alarm(current)
      IN  IF gi # 0
          THEN IF find_entry(groups[gi].display_list, current.alarm_id) = 0
               THEN creation_scan(list, i + 1,
                      [groups EXCEPT ![gi].display_list = <<copy>> \o @],
                      Append(ev, Line("assigned", current.alarm_id,
                                      current.group_id, current.seconds,
                                      current.message)))
               ELSE creation_scan(list, i + 1, groups, ev)
          ELSE creation_scan(list, i + 1,
                 <<group_t(current.group_id, <<copy>>)>> \o groups,
                 Append(ev, Line("created", current.alarm_id,
                                 current.group_id, current.seconds,
                                 current.message)))

creation_start_read ==
    /\ crashed = FALSE
    /\ disc_pc = "start_read"
    /\ start_read_enter
    /\ disc_pc' = after_enter(reader_count')
    /\ out' = <<>>
    /\ UNCHANGED <<now, alarm_list, alarm_mutex, group_threads, disp_pc,
                   reaper_pc, crashed>>
    /\ UNCHANGED <<sched_vars, main_vars>>

creation_wait_rw ==
    /\ crashed = FALSE
    /\ disc_pc = "wait_rw"
    /\ start_read_first
    /\ disc_pc' = "lock"
    /\ out' = <<>>
    /\ UNCHANGED <<now, alarm_list, alarm_mutex, group_threads, disp_pc,
                   reaper_pc, crashed>>
    /\ UNCHANGED <<sched_vars, main_vars>>

\* lines 309-373: the lock, the pass and the unlock; pthread_create (line 351)
\* starts the display alarm thread of every group record the pass creates
creation_pass ==
    /\ crashed = FALSE
    /\ disc_pc = "lock"
    /\ alarm_mutex = FALSE
    /\ LET r == creation_scan(alarm_list, 1, group_threads, <<>>)
       IN  /\ group_threads' = r.groups
           /\ out' = r.out
           /\ disp_pc' = [g \in Groups |->
                            IF find_group(group_threads, g) = 0
                               /\ find_group(r.groups, g) # 0
                            THEN "start_read" ELSE disp_pc[g]]
    /\ disc_pc' = "stop_read"
    /\ UNCHANGED <<now, alarm_list, alarm_mutex, reaper_pc, crashed>>
    /\ UNCHANGED <<sched_vars, main_vars, gate_vars>>

\* lines 374-375
creation_stop_read ==
    /\ crashed = FALSE
    /\ disc_pc = "stop_read"
    /\ stop_read
    /\ disc_pc' = "start_read"
    /\ out' = <<>>
    /\ UNCHANGED <<now, alarm_list, alarm_mutex, group_threads, disp_pc,
                   reaper_pc, crashed>>
    /\ UNCHANGED <<sched_vars, main_vars>>

\* ---- display_alarm_thread (one Display Worker per group) --------------------
EntryLine(type, e) == Line(type, e.alarm_id, e.group_id, e.seconds, e.message)

\* a display_case that does not look at the live active flag before printing
display_case_any(current, temp) ==
    IF current.group_id = temp.group_id /\ current.alarm_id = temp.alarm_id
    THEN "render"
    ELSE IF current.group_id # temp.group_id /\ temp.active = 1
    THEN "stopped"
    ELSE "keep"

\* lines 265-273: what the walk does with a snapshot entry whose alarm is in
\* the alarm list (find_alarm has matched the alarm_id). In line 268 the
\* operator & binds tighter than &&: the operands group as written here.
display_case(current, temp) ==
    IF current.group_id = temp.group_id /\ current.alarm_id = temp.alarm_id
       /\ temp.active = 1
    THEN "render"
    ELSE IF current.alarm_id = temp.alarm_id
            /\ (current.group_id # temp.group_id /\ temp.active = 1)
    THEN "stopped"
    ELSE IF current.group_id = temp.group_id
            /\ current.message # temp.message /\ temp.active = 1
    THEN "message changed"
    ELSE "keep"

\* lines 256-281: the walk over the display_list s of the group. prev stays
\* &group->display_list for the whole walk and no link is rewritten, so the
\* list head h is the only thing the walk moves: to the entry itself when the
\* entry is kept (line 279), to its successor when it is dropped (lines 262,
\* 270). ev collects the printed lines, slept the seconds of sleep (line 267).
RECURSIVE display_scan(_, _, _, _, _, _)
display_scan(list, s, i, h, ev, slept) ==
    IF i > Len(s)
    THEN [display_list |-> SubSeq(s, h, Len(s)), out |-> ev, slept |-> slept]
    ELSE
      LET current == s[i]
          t == find_alarm(list, current.alarm_id)
      IN  IF t = 0
          THEN display_scan(list, s, i + 1, i + 1,
                            Append(ev, EntryLine("stopped", current)), slept)
          ELSE
            LET temp == list[t]
                kept == [s EXCEPT ![i].active = temp.active]
                case == display_case(current, temp)
            IN  IF case = "render"
                THEN display_scan(list, kept, i + 1, i,
                                  Append(ev, EntryLine("render", current)),
                                  slept + current.seconds)
                ELSE IF case = "stopped"
                THEN display_scan(list, s, i + 1, i + 1,
                                  Append(ev, EntryLine("stopped", current)),
                                  slept)
                ELSE IF case = "message changed"
                THEN display_scan(list,
                                  [kept EXCEPT ![i].message = temp.message],
                                  i + 1, i,
                                  Append(ev, Line("message changed",
                                                  current.alarm_id,
                                                  current.group_id,
                                                  current.seconds,
                                                  temp.message)),
                                  slept)
                ELSE display_scan(list, kept, i + 1, i, ev, slept)

display_start_read(g) ==
    /\ crashed = FALSE
    /\ disp_pc[g] = "start_read"
    /\ start_read_enter
    /\ disp_pc' = [disp_pc EXCEPT ![g] = after_enter(reader_count')]
    /\ out' = <<>>
    /\ UNCHANGED <<now, alarm_list, alarm_mutex, group_threads, disc_pc,
                   reaper_pc, crashed>>
    /\ UNCHANGED <<sched_vars, main_vars>>

display_wait_rw(g) ==
    /\ crashed = FALSE
    /\ disp_pc[g] = "wait_rw"
    /\ start_read_first
    /\ disp_pc' = [disp_pc EXCEPT ![g] = "lock"]
    /\ out' = <<>>
    /\ UNCHANGED <<now, alarm_list, alarm_mutex, group_threads, disc_pc,
                   reaper_pc, crashed>>
    /\ UNCHANGED <<sched_vars, main_vars>>

\* lines 247-285: the lock, the pass and the unlock. The thread sleeps (line
\* 267) with alarm_mutex and the gate held, so the clock moves on by the
\* seconds slept. A group id without a record makes line 256 dereference NULL.
display_pass(g) ==
    /\ crashed = FALSE
    /\ disp_pc[g] = "lock"
    /\ alarm_mutex = FALSE
    /\ LET gi == find_group(group_threads, g)
       IN  IF gi = 0
           THEN /\ crashed' = TRUE
                /\ out' = <<>>
                /\ UNCHANGED <<group_threads, now>>
           ELSE LET r == display_scan(alarm_list,
                                      group_threads[gi].display_list,
                                      1, 1, <<>>, 0)
                IN  /\ group_threads' =
                          [group_threads EXCEPT
                              ![gi].display_list = r.display_list]
                    /\ out' = r.out
                    /\ now' = Min(now + r.slept, MaxTime)
                    /\ UNCHANGED crashed
    /\ disp_pc' = [disp_pc EXCEPT ![g] = "stop_read"]
    /\ UNCHANGED <<alarm_list, alarm_mutex, disc_pc, reaper_pc>>
    /\ UNCHANGED <<sched_vars, main_vars, gate_vars>>

\* lines 286-287
display_stop_read(g) ==
    /\ crashed = FALSE
    /\ disp_pc[g] = "stop_read"
    /\ stop_read
    /\ disp_pc' = [disp_pc EXCEPT ![g] = "start_read"]
    /\ out' = <<>>
    /\ UNCHANGED <<now, alarm_list, alarm_mutex, group_threads, disc_pc,
                   reaper_pc, crashed>>
    /\ UNCHANGED <<sched_vars, main_vars>>

\* ---- alarm_group_display_removal (the Reaper) -------------------------------
\* line 389: `current_group->display_list = NULL` is an assignment: it empties
\* the display_list and its value, NULL, is the (false) condition
removal_test(group) ==
    [group |-> group_t(group.group_id, <<>>), empty |-> FALSE]

\* lines 383-410: the walk over group_threads; gone collects the group ids
\* whose thread is cancelled and whose record is unlinked
RECURSIVE removal_scan(_, _, _, _, _)
removal_scan(groups, i, keep, gone, ev) ==
    IF i > Len(groups) THEN [groups |-> keep, gone |-> gone, out |-> ev]
    ELSE
      LET r == removal_test(groups[i])
      IN  IF r.empty
          THEN removal_scan(groups, i + 1, keep,
                            gone \cup {groups[i].group_id},
                            Append(ev, Line("removed", 0, groups[i].group_id,
                                            0, 0)))
          ELSE removal_scan(groups, i + 1, Append(keep, r.group), gone, ev)

\* line 382
removal_start_write ==
    /\ crashed = FALSE
    /\ reaper_pc = "start_write"
    /\ start_write
    /\ reaper_pc' = "scan"
    /\ out' = <<>>
    /\ UNCHANGED <<now, alarm_list, alarm_mutex, group_threads, disc_pc,
                   disp_pc, crashed>>
    /\ UNCHANGED <<sched_vars, main_vars>>

\* lines 383-412: the pass and stop_write
removal_pass ==
    /\ crashed = FALSE
    /\ reaper_pc = "scan"
    /\ LET r == removal_scan(group_threads, 1, <<>>, {}, <<>>)
       IN  /\ group_threads' = r.groups
           /\ out' = r.out
           /\ disp_pc' = [g \in Groups |->
                            IF g \in r.gone THEN "none" ELSE disp_pc[g]]
    /\ stop_write
    /\ reaper_pc' = "start_write"
    /\ UNCHANGED <<now, alarm_list, alarm_mutex, disc_pc, crashed>>
    /\ UNCHANGED <<sched_vars, main_vars>>

\* ---- the program ------------------------------------------------------------
Scheduler ==
    \/ alarm_thread_lock
    \/ alarm_thread_top
    \/ alarm_thread_wake_empty
    \/ alarm_thread_timedwait

Main ==
    \/ \E g \in Groups, s \in Secs : Start_Alarm(g, s, 1)
    \/ \E id \in AlarmIds, g \in Groups, s \in Secs, m \in Msgs :
          Change_Alarm(id, g, s, m)
    \/ \E id \in AlarmIds : Cancel_Alarm(id)
    \/ \E id \in AlarmIds : Suspend_Alarm(id)
    \/ \E id \in AlarmIds : Reactivate_Alarm(id)
    \/ View_Alarms
    \/ Invalid_Request

Discovery ==
    \/ creation_start_read
    \/ creation_wait_rw
    \/ creation_pass
    \/ creation_stop_read

Worker(g) ==
    \/ display_start_read(g)
    \/ display_wait_rw(g)
    \/ display_pass(g)
    \/ display_stop_read(g)

Reaper ==
    \/ removal_start_write
    \/ removal_pass

\* a fault ends the process: no action is enabled once crashed
Next ==
    \/ Tick
    \/ Scheduler
    \/ Main
    \/ Discovery
    \/ \E g \in Groups : Worker(g)
    \/ Reaper

Spec == Init /\ [][Next]_vars

\* The program with Start_Alarm as the only request, and with the fairness
\* the threads' scheduling gives: the clock advances, every thread that can
\* take a step eventually takes it, and a thread waiting for alarm_mutex or a
\* semaphore gets it when it is free again and again. A return of
\* pthread_cond_wait that nothing signalled (alarm_thread_wake_empty) is
\* allowed but never guaranteed.
StartNext ==
    \/ Tick
    \/ Scheduler
    \/ \E g \in Groups, s \in Secs : Start_Alarm(g, s, 1)
    \/ Discovery
    \/ \E g \in Groups : Worker(g)
    \/ Reaper

FairSpec ==
    /\ Init
    /\ [][StartNext]_vars
    /\ WF_vars(Tick)
    /\ SF_vars(alarm_thread_lock)
    /\ WF_vars(alarm_thread_top)
    /\ SF_vars(alarm_thread_timedwait)
    /\ SF_vars(Discovery)
    /\ SF_vars(Reaper)
    /\ \A g \in Groups : SF_vars(Worker(g))

\* ---- properties -------------------------------------------------------------
Sorted(list) ==
    \A i \in 1..Len(list) : \A j \in 1..Len(list) :
        i < j => list[i].time <= list[j].time

LastFired == fired[Len(fired)]

Fires == Len(fired') = Len(fired) + 1

Pending(id) ==
    \/ find_alarm(alarm_list, id) # 0
    \/ (sched_alarm # <<>> /\ sched_alarm[1].alarm_id = id)

HasFired(id) == \E i \in 1..Len(fired) : fired[i].alarm_id = id

\* C1: with Start_Alarm requests only, the alarm thread prints the alarms in
\* non-decreasing order of expiry.
C1_FiredInExpiryOrder ==
    ~mutated =>
        \A i \in 1..Len(fired) : \A j \in 1..Len(fired) :
            i < j => fired[i].time <= fired[j].time

\* C2: an alarm inserted by Start_Alarm with an expiry earlier than that of
\* the alarm the alarm thread waits for takes over the wait and fires first:
\* the alarm thread never fires the alarm it waited for while the list holds
\* an alarm with a strictly earlier expiry.
C2_EarlierInsertFiresFirst ==
    [][(alarm_thread_timedwait /\ Fires /\ ~mutated) =>
          \A i \in 1..Len(alarm_list) :
              alarm_list[i].time >= sched_alarm[1].time]_vars

\* C3: under fair scheduling and an advancing clock every alarm started and
\* never changed, suspended or cancelled is eventually fired.
C3_EveryAlarmFires ==
    \A id \in AlarmIds : Pending(id) ~> (HasFired(id) \/ mutated)

\* C4: the alarm thread never fires an alarm before its expiry: at every
\* step that fires an alarm the clock has reached the alarm's expiry.
C4_NeverFiresEarly ==
    [][Fires => now >= fired'[Len(fired')].time]_vars

\* an alarm has just been fired, at its expiry or later
C4_Witness ==
    /\ fired # <<>>
    /\ out # <<>> /\ out[1].type = "fired"
    /\ now >= LastFired.time

\* C5: whenever alarm_mutex is free the alarm list is sorted by ascending
\* expiry.
C5_RegistrySorted == alarm_mutex = FALSE => Sorted(alarm_list)

Unexpired(alarm) == alarm.time > now

\* the expiry of the alarm with the id in the alarm list (0 when absent)
ExpiryOf(id) ==
    LET i == find_alarm(alarm_list, id)
    IN  IF i = 0 THEN 0 ELSE alarm_list[i].time

\* C6: View_Alarms after N Start_Alarm requests and no other request about
\* an alarm, before any of the alarms has reached its expiry, prints exactly
\* N entries, in ascending order of expiry.
C6_ViewListsAllStarted ==
    [][(/\ View_Alarms
        /\ ~mutated
        /\ fired = <<>>
        /\ \A i \in 1..Len(alarm_list) : Unexpired(alarm_list[i])
        /\ \A i \in 1..Len(sched_alarm) : Unexpired(sched_alarm[i]))
       => /\ Len(out') = next_id - 1
          /\ \A i \in 1..Len(out') : \A j \in 1..Len(out') :
                i < j => ExpiryOf(out'[i].id) <= ExpiryOf(out'[j].id)]_vars

\* C7: Cancel_Alarm of an id in the alarm list removes exactly that alarm
\* (the id is not found afterwards, the other alarms keep their order),
\* prints the confirmation for it, and the process does not fault.
C7_CancelRemovesAndConfirms ==
    [][\A id \in AlarmIds :
          (Cancel_Alarm(id) /\ find_alarm(alarm_list, id) # 0) =>
             LET k == find_alarm(alarm_list, id)
             IN  /\ find_alarm(alarm_list', id) = 0
                 /\ alarm_list' = SubSeq(alarm_list, 1, k - 1)
                                    \o SubSeq(alarm_list, k + 1, Len(alarm_list))
                 /\ out' = <<Line("canceled", id, 0, alarm_list[k].seconds,
                                  alarm_list[k].message)>>
                 /\ crashed' = FALSE]_vars

RegistriesUnchanged ==
    /\ alarm_list' = alarm_list
    /\ group_threads' = group_threads
    /\ crashed' = FALSE

\* C8: Change_Alarm, Cancel_Alarm, Suspend_Alarm and Reactivate_Alarm with an
\* id that is not in the alarm list, and a line that is no command, leave the
\* alarm list and the group list as they were, and the process goes on.
C8_UnknownIdChangesNothing ==
    [][/\ \A id \in AlarmIds :
             (/\ find_alarm(alarm_list, id) = 0
              /\ \/ \E g \in Groups, s \in Secs, m \in Msgs :
                       Change_Alarm(id, g, s, m)
                 \/ Cancel_Alarm(id)
                 \/ Suspend_Alarm(id)
                 \/ Reactivate_Alarm(id))
             => RegistriesUnchanged
       /\ Invalid_Request => RegistriesUnchanged]_vars

\* a Cancel_Alarm for an alarm that is not in a non-empty alarm list (the
\* alarm thread has detached it) has just been answered "not found"
C8_Witness ==
    /\ out # <<>> /\ out[1].type = "cancel: not found"
    /\ alarm_list # <<>>
    /\ sched_alarm # <<>> /\ sched_alarm[1].alarm_id = out[1].id

\* C9: a display alarm thread prints an alarm only while the alarm is in the
\* alarm list, in the thread's group, with active = 1; and only
\* Reactivate_Alarm sets the active flag of an alarm back to 1, so no alarm
\* is printed between its Suspend_Alarm and its Reactivate_Alarm.
C9_RendersOnlyActive ==
    [][/\ \A g \in Groups :
             display_pass(g) =>
                \A i \in 1..Len(out') :
                    out'[i].type = "render" =>
                       LET t == find_alarm(alarm_list, out'[i].id)
                       IN  /\ t # 0
                           /\ alarm_list[t].group_id = g
                           /\ alarm_list[t].active = 1
       /\ \A id \in AlarmIds :
             LET t == find_alarm(alarm_list, id)
                 u == find_alarm(alarm_list', id)
             IN  (t # 0 /\ u # 0 /\ alarm_list[t].active = 0
                  /\ alarm_list'[u].active = 1) => Reactivate_Alarm(id)]_vars

\* a pass has printed an alarm while a suspended alarm has a snapshot entry
C9_Witness ==
    /\ \E i \in 1..Len(out) : out[i].type = "render"
    /\ \E k \in 1..Len(alarm_list) :
          /\ alarm_list[k].active = 0
          /\ \E gi \in 1..Len(group_threads) :
                find_entry(group_threads[gi].display_list,
                           alarm_list[k].alarm_id) # 0

\* the only change a request may make to the list: the alarm with the id
\* gets the active flag, everything else stays where and as it is
OnlyActiveSet(id, flag) ==
    /\ Len(alarm_list') = Len(alarm_list)
    /\ \A k \in 1..Len(alarm_list) :
          \/ alarm_list'[k] = alarm_list[k]
          \/ /\ alarm_list[k].alarm_id = id
             /\ alarm_list'[k] = [alarm_list[k] EXCEPT !.active = flag]
    /\ group_threads' = group_threads
    /\ UNCHANGED <<sched_alarm, fired, current_alarm>>

\* C10: Suspend_Alarm and Reactivate_Alarm change nothing but the active flag
\* of the alarm with the id; Suspend_Alarm of a suspended alarm and
\* Reactivate_Alarm of an active alarm change nothing.
C10_OnlyActiveFlagChanges ==
    [][\A id \in AlarmIds :
          /\ Suspend_Alarm(id) => OnlyActiveSet(id, 0)
          /\ Reactivate_Alarm(id) => OnlyActiveSet(id, 1)]_vars

\* Suspend_Alarm has just been answered "already suspended" for an alarm that
\* is in the alarm list, suspended by an earlier Suspend_Alarm
C10_Witness ==
    /\ out # <<>> /\ out[1].type = "not found or already suspended"
    /\ \E k \in 1..Len(alarm_list) :
          alarm_list[k].alarm_id = out[1].id /\ alarm_list[k].active = 0

\* ---- the display snapshots --------------------------------------------------
Started(id) == id < next_id

\* alarm ids are never reused: a started alarm that is neither in the alarm
\* list, nor held by the alarm thread, nor fired, has been cancelled
Cancelled(id) == Started(id) /\ ~Pending(id) /\ ~HasFired(id)

HasEntry(groups, g, id) ==
    LET gi == find_group(groups, g)
    IN  gi # 0 /\ find_entry(groups[gi].display_list, id) # 0

Notices(o, type, id) ==
    Cardinality({k \in 1..Len(o) : o[k].type = type /\ o[k].id = id})

WorkerPasses(g) == disp_pc[g] = "lock" /\ disp_pc'[g] = "stop_read"

\* C11: the display_list entry of a cancelled alarm is never rendered again,
\* and it leaves the display_list of its group in a step that prints exactly
\* one "stopped displaying" line for it: the line is printed once, neither
\* never nor twice.
C11_CancelledEntryDroppedWithNotice ==
    [][\A g \in Groups, id \in AlarmIds :
          (Cancelled(id) /\ HasEntry(group_threads, g, id)) =>
              /\ Notices(out', "render", id) = 0
              /\ IF HasEntry(group_threads', g, id)
                 THEN Notices(out', "stopped", id) = 0
                 ELSE Notices(out', "stopped", id) = 1]_vars

\* the alarm id is in the display_list of group g and in the alarm list with
\* another group_id
Moved(g, id) ==
    /\ HasEntry(group_threads, g, id)
    /\ \E k \in 1..Len(alarm_list) :
          alarm_list[k].alarm_id = id /\ alarm_list[k].group_id # g

\* C12: after Change_Alarm has moved an alarm to another group, active or
\* suspended, the entry leaves the display_list of the old group in a pass of
\* the old group's display thread, and with a "stopped displaying" line for it.
C12_MovedEntryDroppedWithNotice ==
    [][\A g \in Groups, id \in AlarmIds :
          Moved(g, id) =>
              /\ WorkerPasses(g) => ~HasEntry(group_threads', g, id)
              /\ ~HasEntry(group_threads', g, id) =>
                    (WorkerPasses(g) /\ Notices(out', "stopped", id) = 1)]_vars

\* no alarm of group g is in the alarm list or held by the alarm thread
NoAlarmOf(g) ==
    /\ \A k \in 1..Len(alarm_list) : alarm_list[k].group_id # g
    /\ sched_alarm # <<>> => sched_alarm[1].group_id # g

\* C13: a group that has a record and no alarm left (its alarms were fired)
\* eventually has its record removed by the Reaper and its display thread
\* cancelled, unless a new alarm is started for the group.
C13_EmptyGroupRetired ==
    \A g \in Groups :
        (find_group(group_threads, g) # 0 /\ NoAlarmOf(g))
            ~> (\/ (find_group(group_threads, g) = 0 /\ disp_pc[g] = "none")
                \/ ~NoAlarmOf(g))

ReaperPasses == reaper_pc = "scan" /\ reaper_pc' = "start_write"

\* C14: a pass of the Reaper leaves every group with a non-empty display_list
\* as it was: the record stays in group_threads with the same display_list,
\* and its display thread is not cancelled.
C14_ReaperLeavesNonEmptyGroups ==
    [][ReaperPasses =>
          \A i \in 1..Len(group_threads) :
              group_threads[i].display_list # <<>> =>
                  LET g == group_threads[i].group_id
                      j == find_group(group_threads', g)
                  IN  /\ j # 0
                      /\ group_threads'[j].display_list
                            = group_threads[i].display_list
                      /\ disp_pc'[g] = disp_pc[g]]_vars

\* ---- the readers/writers gate -----------------------------------------------
\* a thread is past start_read and not yet past stop_read
HoldsRead(pc) == pc \in {"lock", "stop_read"}

\* a thread has counted itself in reader_count and waits for rw_mutex
WaitsRead(pc) == pc = "wait_rw"

CountReaders(P(_)) ==
    Cardinality({g \in Groups : P(disp_pc[g])})
        + (IF P(disc_pc) THEN 1 ELSE 0)

ReadHolders == CountReaders(HoldsRead)

ReadWaiters == CountReaders(WaitsRead)

WriteHeld == reaper_pc = "scan"

\* C15 as the claim states it: the Reaper never holds write access while a
\* reader holds read access, and reader_count is the number of threads that
\* hold read access.
C15_GateExclusion ==
    /\ WriteHeld => ReadHolders = 0
    /\ reader_count = ReadHolders

\* C15 amended: the Reaper never holds write access while a reader holds read
\* access, and reader_count is the number of threads that hold read access or
\* have counted themselves in start_read and wait there for rw_mutex.
C15_GateExclusionCounted ==
    /\ WriteHeld => ReadHolders = 0
    /\ reader_count = ReadHolders + ReadWaiters

\* the Reaper holds write access while a reader waits in start_read
C15_Witness == WriteHeld /\ ReadWaiters = 1 /\ reader_count = 1

AtStartRead ==
    Cardinality({g \in Groups : disp_pc[g] = "start_read"})
        + (IF disc_pc = "start_read" THEN 1 ELSE 0)

\* C16: while a thread holds read access and the Reaper does not hold write
\* access, a second thread that calls start_read is let in without waiting
\* for the first to leave: its sem_wait(&mutex) does not block.
C16_SecondReaderAdmitted ==
    (ReadHolders >= 1 /\ ~WriteHeld /\ AtStartRead >= 1) => mutex > 0

\* ---- the detached alarm -----------------------------------------------------
TimesFired(id) ==
    Cardinality({i \in 1..Len(fired) : fired[i].alarm_id = id})

TimesListed(id) ==
    Cardinality({k \in 1..Len(alarm_list) : alarm_list[k].alarm_id = id})

Detached(id) == sched_alarm # <<>> /\ sched_alarm[1].alarm_id = id

\* every started alarm is in at most one place, once: in the alarm list, held
\* by the alarm thread, or fired
OnePlace ==
    \A id \in AlarmIds :
        TimesListed(id) + TimesFired(id) + (IF Detached(id) THEN 1 ELSE 0) <= 1

\* the alarm thread lets go of the alarm it holds only by firing it, which
\* appends it to the fired alarms, or by putting it back into the alarm list
DetachedFiredOrReinserted ==
    \A id \in AlarmIds :
        (Detached(id) /\ ~Detached(id)') =>
            \/ (fired' = Append(fired, fire_record(sched_alarm[1])) /\
                alarm_list' = alarm_list)
            \/ (fired' = fired /\
                alarm_list' = splice(alarm_list, sched_alarm[1]))

\* C17: an alarm the alarm thread has detached from the list is neither lost
\* nor duplicated: it leaves the thread's hands fired or reinserted, no alarm
\* is fired twice, and a fired alarm is never in the alarm list again.
C17_DetachedNeverLostOrDuplicated ==
    []OnePlace /\ [][DetachedFiredOrReinserted]_vars

\* one alarm has been detached and fired and the thread now holds another
C17_Witness == fired # <<>> /\ sched_alarm # <<>>

\* ---- a pass of a display thread ---------------------------------------------
DisplayList(groups, g) == groups[find_group(groups, g)].display_list

\* entry e of group g's display_list is the copy of an alarm in the alarm
\* list that is active, still of group g, and has another message now
StaleMessage(g, e) ==
    \E k \in 1..Len(alarm_list) :
        /\ alarm_list[k].alarm_id = e.alarm_id
        /\ alarm_list[k].group_id = g
        /\ alarm_list[k].active = 1
        /\ alarm_list[k].message # e.message

LiveMessage(id) == alarm_list[find_alarm(alarm_list, id)].message

\* C18: when the message of an active alarm has been changed and its group
\* has not, the next pass of the group's display thread prints a "message
\* changed" line for the alarm, does not print the old message, and leaves
\* the new message in the display_list entry.
C18_MessageChangeRefreshed ==
    [][\A g \in Groups :
          (WorkerPasses(g) /\ find_group(group_threads, g) # 0) =>
              \A i \in 1..Len(DisplayList(group_threads, g)) :
                  LET e == DisplayList(group_threads, g)[i]
                      after == DisplayList(group_threads', g)
                  IN  StaleMessage(g, e) =>
                        /\ Notices(out', "message changed", e.alarm_id) = 1
                        /\ \A k \in 1..Len(out') :
                              (out'[k].type = "render"
                               /\ out'[k].id = e.alarm_id)
                                  => out'[k].message = LiveMessage(e.alarm_id)
                        /\ \A j \in 1..Len(after) :
                              after[j].alarm_id = e.alarm_id =>
                                  after[j].message
                                      = LiveMessage(e.alarm_id)]_vars

EntryIds(display_list) ==
    {display_list[i].alarm_id : i \in 1..Len(display_list)}

\* the alarm of id is in the alarm list and of group g
InGroup(g, id) ==
    \E k \in 1..Len(alarm_list) :
        alarm_list[k].alarm_id = id /\ alarm_list[k].group_id = g

\* C19: a pass of group g's display thread removes from the display_list
\* exactly the entries whose alarm is not in the alarm list or is of another
\* group now; every other entry, suspended or not, first or last, stays.
C19_PassRemovesExactlyTheGone ==
    [][\A g \in Groups :
          (WorkerPasses(g) /\ find_group(group_threads, g) # 0) =>
              EntryIds(DisplayList(group_threads', g))
                  = {id \in EntryIds(DisplayList(group_threads, g)) :
                        InGroup(g, id)}]_vars

\* ---- a pass of the creation thread ------------------------------------------
DiscoveryPasses == disc_pc = "lock" /\ disc_pc' = "stop_read"

\* the alarms that are started, not fired and not cancelled: those in the
\* alarm list and the one the alarm thread holds
LiveAlarms ==
    {alarm_list[k] : k \in 1..Len(alarm_list)}
        \cup {sched_alarm[k] : k \in 1..Len(sched_alarm)}

\* C20: when a pass of the creation thread ends, every live alarm, the one
\* the alarm thread is waiting on included, has an entry with its alarm_id in
\* the display_list of the record of its group_id, and that group has a
\* display thread.
C20_DiscoveryCoversLiveAlarms ==
    [][DiscoveryPasses =>
          \A a \in LiveAlarms :
              /\ HasEntry(group_threads', a.group_id, a.alarm_id)
              /\ disp_pc'[a.group_id] # "none"]_vars

\* ---- group records and display threads --------------------------------------
RecordsOf(groups, g) ==
    Cardinality({i \in 1..Len(groups) : groups[i].group_id = g})

HasWorker(pcs, g) == pcs[g] # "none"

\* at most one record per group id, and a record if and only if a display
\* thread of that group id runs
OneRecordOneWorker ==
    \A g \in Groups :
        /\ RecordsOf(group_threads, g) <= 1
        /\ RecordsOf(group_threads, g) = 1 <=> HasWorker(disp_pc, g)

\* a display thread is started in the step that creates the record of its
\* group id and in no other, and no record is added for a group id that has one
SpawnedWithRecord ==
    \A g \in Groups :
        /\ (~HasWorker(disp_pc, g) /\ HasWorker(disp_pc', g))
              <=> (RecordsOf(group_threads, g) = 0
                   /\ RecordsOf(group_threads', g) = 1)
        /\ RecordsOf(group_threads, g) >= 1 =>
              RecordsOf(group_threads', g) <= RecordsOf(group_threads, g)

\* C21: group_threads never holds two records with the same group_id, every
\* record has the one display thread that was created with it, and no display
\* thread is created for a group_id that already has a record.
C21_OneWorkerPerGroup ==
    []OneRecordOneWorker /\ [][SpawnedWithRecord]_vars

\* both groups have their record and a pass of the creation thread has just
\* added an alarm to the display_list of a record that existed
C21_Witness ==
    /\ Len(group_threads) = NumGroups
    /\ out # <<>> /\ out[1].type = "assigned"

\* the alarm of id is started, not fired, not cancelled, and of group g
PendingIn(g, id) ==
    \E a \in LiveAlarms : a.alarm_id = id /\ a.group_id = g

\* C22: a pass of group g's display thread prints a "stopped displaying"
\* line only for an alarm that was cancelled, has fired or is of another group
\* now, never for an alarm that is still pending in group g.
C22_StoppedOnlyForGone ==
    [][\A g \in Groups :
          WorkerPasses(g) =>
              \A k \in 1..Len(out') :
                  out'[k].type = "stopped" => ~PendingIn(g, out'[k].id)]_vars

\* ---- the locks --------------------------------------------------------------
Locks == {"mutex", "rw_mutex", "alarm_mutex"}

\* the threads that keep a lock from one step to the next, or wait for one;
\* main takes and releases alarm_mutex within one request
Tasks ==
    {<<"sched", 0>>, <<"disc", 0>>, <<"reaper", 0>>}
        \cup {<<"disp", g>> : g \in Groups}

PcOf(t) ==
    IF t[1] = "sched" THEN sched_pc
    ELSE IF t[1] = "disc" THEN disc_pc
    ELSE IF t[1] = "reaper" THEN reaper_pc
    ELSE disp_pc[t[2]]

IsReader(t) == t[1] \in {"disc", "disp"}

Holds(t, lock) ==
    IF IsReader(t)
    THEN \/ lock = "mutex" /\ PcOf(t) \in {"wait_rw", "lock", "stop_read"}
         \/ lock = "rw_mutex" /\ PcOf(t) \in {"lock", "stop_read"}
    ELSE IF t[1] = "reaper"
    THEN lock = "rw_mutex" /\ PcOf(t) = "scan"
    ELSE lock = "alarm_mutex" /\ PcOf(t) = "top"

\* the thread's next step is the acquisition of the lock
WaitsFor(t, lock) ==
    IF IsReader(t)
    THEN \/ lock = "mutex" /\ PcOf(t) = "start_read"
         \/ lock = "rw_mutex" /\ PcOf(t) = "wait_rw"
         \/ lock = "alarm_mutex" /\ PcOf(t) = "lock"
    ELSE IF t[1] = "reaper"
    THEN lock = "rw_mutex" /\ PcOf(t) = "start_write"
    ELSE lock = "alarm_mutex" /\ PcOf(t) = "start"

IsFree(lock) ==
    IF lock = "mutex" THEN mutex > 0
    ELSE IF lock = "rw_mutex" THEN rw_mutex > 0
    ELSE alarm_mutex = FALSE

\* a lock is taken exactly when one thread holds it
LocksHaveHolders ==
    /\ mutex \in {0, 1} /\ rw_mutex \in {0, 1}
    /\ \A lock \in Locks :
          /\ ~IsFree(lock) <=> \E t \in Tasks : Holds(t, lock)
          /\ \A t \in Tasks, u \in Tasks :
                (Holds(t, lock) /\ Holds(u, lock)) => t = u

\* a set of threads each of which waits for a lock held by one of the set
LockCycle ==
    \E S \in SUBSET Tasks :
        /\ S # {}
        /\ \A t \in S : \E lock \in Locks, u \in S :
              WaitsFor(t, lock) /\ Holds(u, lock)

\* the thread's next step is the acquisition of a lock. A thread goes round
\* its acquisitions in a fixed order, so a thread that is again and again not
\* waiting has got every lock it waited for.
Waiting(t) == \E lock \in Locks : WaitsFor(t, lock)

\* C23: no reachable state has threads that wait in a cycle for the locks
\* mutex, rw_mutex and alarm_mutex held by one another, every taken lock has a
\* holder, and with fair scheduling every thread that waits for a lock
\* eventually gets it.
C23_NoLockDeadlock ==
    /\ [](LocksHaveHolders /\ ~LockCycle)
    /\ \A t \in Tasks : []<>(~Waiting(t))

\* a display thread waits for mutex, held by the creation thread, which waits
\* for rw_mutex, held by the Reaper
C23_Witness ==
    /\ \E g \in Groups : WaitsFor(<<"disp", g>>, "mutex")
    /\ Holds(<<"disc", 0>>, "mutex") /\ WaitsFor(<<"disc", 0>>, "rw_mutex")
    /\ Holds(<<"reaper", 0>>, "rw_mutex")

====
